---------------------------- MODULE Spec2Model ----------------------------
(***************************************************************************)
(* Model of packages/server/src/core/sdk/index.ts of edgestore: the raw    *)
(* SDK (six operations over makeRequest) and initEdgeStoreSdk, the factory *)
(* that closes over the credentials.                                       *)
(*                                                                         *)
(* JavaScript values are tagged records.  An object is the sequence of its *)
(* own enumerable properties, <<key, value>>, in the order Object.entries  *)
(* and JSON.stringify enumerate them.  A string is a TLA+ string; where    *)
(* the code needs its characters (the Authorization header) CodeUnits      *)
(* gives its UTF-16 code units.  A text (a request body, a response body)  *)
(* is the sequence of its JSON tokens.                                     *)
(***************************************************************************)
EXTENDS Integers, Sequences, FiniteSets, TLC

VARIABLES
    env,        \* process.env: EDGE_STORE_ACCESS_KEY, EDGE_STORE_SECRET_KEY
    handles,    \* the closures initEdgeStoreSdk has returned, in order
    lastInit,   \* the last initEdgeStoreSdk call: its params, the env it read, its outcome
    calls       \* the operation calls made so far, each with its position and its request

vars == <<env, handles, lastInit, calls>>

(***************************************************************************)
(* Bounds of the model.                                                    *)
(***************************************************************************)
MaxHandles == 2
MaxCalls == 2

(***************************************************************************)
(* JavaScript values.                                                      *)
(***************************************************************************)
Undef == [t |-> "undefined"]
Null == [t |-> "null"]
Str(s) == [t |-> "string", s |-> s]
Num(n) == [t |-> "number", n |-> n]
Bool(b) == [t |-> "boolean", b |-> b]
DateOf(iso) == [t |-> "date", iso |-> iso]
Arr(items) == [t |-> "array", items |-> items]
Obj(props) == [t |-> "object", props |-> props]
\* A function value: calling it returns `ret`, or throws an error saying `msg`.
FnRet(ret) == [t |-> "function", throws |-> FALSE, ret |-> ret]
FnThrow(msg) == [t |-> "function", throws |-> TRUE, msg |-> msg]

\* !v
Falsy(v) ==
    \/ v.t \in {"undefined", "null"}
    \/ v.t = "string" /\ v.s = ""
    \/ v.t = "number" /\ v.n = 0
    \/ v.t = "boolean" /\ ~v.b

\* o[k] of a record of named arguments: undefined when the property is absent.
Get(o, k) == IF k \in DOMAIN o THEN o[k] ELSE Undef

\* { ...a, ...b }: b's own properties win.
Spread(a, b) ==
    [k \in DOMAIN a \cup DOMAIN b |-> IF k \in DOMAIN b THEN b[k] ELSE a[k]]

HasProp(v, k) == v.t = "object" /\ \E i \in DOMAIN v.props : v.props[i][1] = k

\* v.k of a JavaScript value that is not null or undefined.
Prop(v, k) ==
    IF HasProp(v, k)
    THEN v.props[CHOOSE i \in DOMAIN v.props : v.props[i][1] = k][2]
    ELSE Undef

(***************************************************************************)
(* JSON.stringify.  Tokens: [p |-> punctuation], [q |-> a quoted string],  *)
(* [n |-> a number], [w |-> a literal word].                               *)
(***************************************************************************)
P(c) == [p |-> c]
Q(s) == [q |-> s]

\* A property or a top-level value JSON.stringify leaves out.
Omitted(v) == v.t \in {"undefined", "function"}

RECURSIVE Ser(_), SerProps(_, _), SerItems(_, _)
Ser(v) ==
    CASE v.t = "null" -> <<[w |-> "null"]>>
      [] v.t = "string" -> <<Q(v.s)>>
      [] v.t = "number" -> <<[n |-> v.n]>>
      [] v.t = "boolean" -> <<[w |-> IF v.b THEN "true" ELSE "false"]>>
      [] v.t = "date" -> <<Q(v.iso)>>                  \* Date.prototype.toJSON
      [] v.t = "array" -> <<P("[")>> \o SerItems(v.items, TRUE) \o <<P("]")>>
      [] v.t = "object" -> <<P("{")>> \o SerProps(v.props, TRUE) \o <<P("}")>>
      [] OTHER -> <<[w |-> "null"]>>                  \* undefined or a function inside an array

SerProps(props, first) ==
    IF props = <<>> THEN <<>>
    ELSE IF Omitted(Head(props)[2]) THEN SerProps(Tail(props), first)
    ELSE (IF first THEN <<>> ELSE <<P(",")>>)
         \o <<Q(Head(props)[1]), P(":")>> \o Ser(Head(props)[2])
         \o SerProps(Tail(props), FALSE)

SerItems(items, first) ==
    IF items = <<>> THEN <<>>
    ELSE (IF first THEN <<>> ELSE <<P(",")>>)
         \o Ser(Head(items)) \o SerItems(Tail(items), FALSE)

\* JSON.stringify(v) of a value that is not itself undefined or a function.
Stringify(v) == Ser(v)

(***************************************************************************)
(* Buffer.from(str).toString('base64'): UTF-8, then base64 with padding.   *)
(***************************************************************************)
\* The UTF-16 code units of the strings the model uses as keys.
CodeUnits(s) ==
    CASE s = "" -> <<>>
      [] s = "ak" -> <<97, 107>>
      [] s = "key" -> <<107, 101, 121>>
      [] s = "s" -> <<115>>
      [] s = "cle2" -> <<99, 108, 233, 50>>           \* "clé2": one non-ASCII unit
      [] s = "undefined" -> <<117, 110, 100, 101, 102, 105, 110, 101, 100>>
      [] s = "null" -> <<110, 117, 108, 108>>

\* `${v}` inside a template literal.
ToStr(v) ==
    CASE v.t = "string" -> v.s
      [] v.t = "undefined" -> "undefined"
      [] v.t = "null" -> "null"

RECURSIVE Utf8(_)
Utf8(units) ==
    IF units = <<>> THEN <<>>
    ELSE LET c == Head(units) IN
         (IF c < 128 THEN <<c>>
          ELSE IF c < 2048 THEN <<192 + (c \div 64), 128 + (c % 64)>>
          ELSE <<224 + (c \div 4096), 128 + ((c \div 64) % 64), 128 + (c % 64)>>)
         \o Utf8(Tail(units))

Base64Chars ==
    <<"A", "B", "C", "D", "E", "F", "G", "H", "I", "J", "K", "L", "M",
      "N", "O", "P", "Q", "R", "S", "T", "U", "V", "W", "X", "Y", "Z",
      "a", "b", "c", "d", "e", "f", "g", "h", "i", "j", "k", "l", "m",
      "n", "o", "p", "q", "r", "s", "t", "u", "v", "w", "x", "y", "z",
      "0", "1", "2", "3", "4", "5", "6", "7", "8", "9", "+", "/">>

B64(i) == Base64Chars[i + 1]

RECURSIVE Base64(_)
Base64(b) ==
    IF Len(b) = 0 THEN <<>>
    ELSE IF Len(b) = 1 THEN
        <<B64(b[1] \div 4), B64((b[1] % 4) * 16), "=", "=">>
    ELSE IF Len(b) = 2 THEN
        <<B64(b[1] \div 4), B64((b[1] % 4) * 16 + (b[2] \div 16)),
          B64((b[2] % 16) * 4), "=">>
    ELSE
        <<B64(b[1] \div 4), B64((b[1] % 4) * 16 + (b[2] \div 16)),
          B64((b[2] % 16) * 4 + (b[3] \div 64)), B64(b[3] % 64)>>
        \o Base64(SubSeq(b, 4, Len(b)))


(***************************************************************************)
(* Results of a computation that may throw.                                *)
(***************************************************************************)
Ok(v) == [ok |-> TRUE, value |-> v]
Throw(e) == [ok |-> FALSE, error |-> e]

\* An error: its class, the parts of its message, and the response text the
\* message ends with (empty when it carries none).
Err(name, message, text) == [name |-> name, message |-> message, text |-> text]

(***************************************************************************)
(* makeRequest.                                                            *)
(***************************************************************************)
\* process.env.EDGE_STORE_API_ENDPOINT ?? ..., read once when the module loads.
API_ENDPOINT == "https://api.edgestore.dev"

\* A faulty header: the two keys in the wrong order.
BasicAuthSwapped(accessKey, secretKey) ==
    <<"Basic ">> \o
    Base64(Utf8(CodeUnits(ToStr(secretKey)) \o <<58>> \o CodeUnits(ToStr(accessKey))))

\* `Basic ${Buffer.from(`${accessKey}:${secretKey}`).toString('base64')}`
BasicAuth(accessKey, secretKey) ==
    <<"Basic ">> \o
    Base64(Utf8(CodeUnits(ToStr(accessKey)) \o <<58>> \o CodeUnits(ToStr(secretKey))))

\* The fetch call of makeRequest: the request it puts on the wire.
makeRequestFetch(params) ==
    [method |-> "POST",
     url |-> <<API_ENDPOINT, params.path>>,
     body |-> Stringify(params.body),
     headers |-> [ContentType |-> "application/json",
                  Authorization |-> BasicAuth(params.accessKey, params.secretKey)]]

\* A faulty success test: everything below 400 passes.
ResOkBelow400(status) == status >= 200 /\ status < 400

\* res.ok
ResOk(status) == status >= 200 /\ status <= 299

\* The values a response body can denote: what the backend serialises.
JsonValues ==
    { Obj(<< <<"token", Str("tok")>> >>),
      Obj(<< <<"signedUrl", Str("s")>>, <<"url", Str("u")>> >>),
      Obj(<< <<"multipart", Obj(<< <<"uploadId", Str("up1")>>,
                                   <<"parts", Arr(<<Num(1)>>)>> >>)>>,
             <<"url", Str("u")>>,
             <<"thumbnailUrl", Null>> >>),
      Obj(<< <<"success", Bool(TRUE)>> >>),
      Null }

\* res.json(): the value whose JSON text the body is; a SyntaxError when the
\* body is no JSON text.
ParseJson(text) ==
    IF \E v \in JsonValues : Stringify(v) = text
    THEN Ok(CHOOSE v \in JsonValues : Stringify(v) = text)
    ELSE Throw(Err("SyntaxError", <<"Unexpected token">>, <<>>))

\* makeRequest after the response has arrived: res = [status, text].
makeRequestReturn(path, res) ==
    IF ~ResOk(res.status)
    THEN Throw(Err("Error", <<"Failed to make request to ", path, ": ">>, res.text))
    ELSE ParseJson(res.text)

(***************************************************************************)
(* edgeStoreRawSdk: for each operation, the makeRequest parameters it      *)
(* builds (or the error it throws before the request), and what it returns *)
(* from makeRequest's result.                                              *)
(***************************************************************************)
Ops == {"getToken", "getFile", "requestUpload", "requestUploadParts",
        "deleteFile", "listFiles"}

\* A faulty map: an empty entry is skipped instead of rejected.
RECURSIVE getTokenPathSkipsEmpty(_)
getTokenPathSkipsEmpty(path) ==
    IF path = <<>> THEN Ok(<<>>)
    ELSE LET paramEntries == Head(path).props IN
         IF paramEntries = <<>> THEN getTokenPathSkipsEmpty(Tail(path))
         ELSE LET key == paramEntries[1][1]
                  value == paramEntries[1][2]
              IN IF value.throws
                 THEN Throw(Err("Error", <<value.msg>>, <<>>))
                 ELSE LET rest == getTokenPathSkipsEmpty(Tail(path)) IN
                      IF ~rest.ok THEN rest
                      ELSE Ok(<<Obj(<< <<"key", Str(key)>>, <<"value", value.ret>> >>)>>
                              \o rest.value)

\* bucket._def.path.map(...): the segments, or the first error thrown.
RECURSIVE getTokenPath(_)
getTokenPath(path) ==
    IF path = <<>> THEN Ok(<<>>)
    ELSE LET paramEntries == Head(path).props IN
         IF paramEntries = <<>>
         THEN Throw(Err("Error", <<"Missing path param">>, <<>>))
         ELSE LET key == paramEntries[1][1]
                  value == paramEntries[1][2]
              IN IF value.throws
                 THEN Throw(Err("Error", <<value.msg>>, <<>>))
                 ELSE LET rest == getTokenPath(Tail(path)) IN
                      IF ~rest.ok THEN rest
                      ELSE Ok(<<Obj(<< <<"key", Str(key)>>, <<"value", value.ret>> >>)>>
                              \o rest.value)

\* A faulty reduce: the buckets are visited last to first.
RECURSIVE getTokenBucketsReversed(_, _)
getTokenBucketsReversed(buckets, acc) ==
    IF buckets = <<>> THEN Ok(Obj(acc))
    ELSE LET bucketName == buckets[Len(buckets)][1]
             bucket == buckets[Len(buckets)][2]
             path == getTokenPath(bucket.path)
         IN IF ~path.ok THEN path
            ELSE getTokenBucketsReversed(SubSeq(buckets, 1, Len(buckets) - 1),
                     Append(acc, <<bucketName,
                                   Obj(<< <<"path", Arr(path.value)>>,
                                          <<"accessControl", bucket.accessControl>> >>)>>))

\* Object.entries(params.router.buckets).reduce(...): reqBuckets.
RECURSIVE getTokenBuckets(_, _)
getTokenBuckets(buckets, acc) ==
    IF buckets = <<>> THEN Ok(Obj(acc))
    ELSE LET bucketName == Head(buckets)[1]
             bucket == Head(buckets)[2]
             path == getTokenPath(bucket.path)
         IN IF ~path.ok THEN path
            ELSE getTokenBuckets(Tail(buckets),
                     Append(acc, <<bucketName,
                                   Obj(<< <<"path", Arr(path.value)>>,
                                          <<"accessControl", bucket.accessControl>> >>)>>))

getTokenRequest(params) ==
    LET reqBuckets == getTokenBuckets(params.router.buckets, <<>>) IN
    IF ~reqBuckets.ok THEN reqBuckets
    ELSE Ok([body |-> Obj(<< <<"ctx", params.ctx>>, <<"buckets", reqBuckets.value>> >>),
             accessKey |-> params.accessKey,
             secretKey |-> params.secretKey,
             path |-> "/get-token"])

\* const { token } = await makeRequest(...); return token
getTokenReturn(res) ==
    IF res.t \in {"null", "undefined"}
    THEN Throw(Err("TypeError", <<"Cannot destructure property 'token'">>, <<>>))
    ELSE Ok(Prop(res, "token"))

getFileRequest(params) ==
    Ok([path |-> "/get-file",
        accessKey |-> Get(params, "accessKey"),
        secretKey |-> Get(params, "secretKey"),
        body |-> Obj(<< <<"url", Get(params, "url")>> >>)])

getFileReturn(res) == Ok(res)

requestUploadRequest(params) ==
    LET fileInfo == Get(params, "fileInfo") IN
    Ok([path |-> "/request-upload",
        accessKey |-> Get(params, "accessKey"),
        secretKey |-> Get(params, "secretKey"),
        body |-> Obj(<< <<"multipart", Get(params, "multipart")>>,
                        <<"bucketName", Get(params, "bucketName")>>,
                        <<"bucketType", Get(params, "bucketType")>>,
                        <<"isPublic", Prop(fileInfo, "isPublic")>>,
                        <<"path", Prop(fileInfo, "path")>>,
                        <<"extension", Prop(fileInfo, "extension")>>,
                        <<"size", Prop(fileInfo, "size")>>,
                        <<"metadata", Prop(fileInfo, "metadata")>>,
                        <<"replaceTargetUrl", Prop(fileInfo, "replaceTargetUrl")>> >>)])

\* A faulty return: the response's url is passed on under its own name.
requestUploadReturnKeepsUrl(res) ==
    IF res.t \in {"null", "undefined"}
    THEN Throw(Err("TypeError", <<"Cannot read properties of null">>, <<>>))
    ELSE Ok(Obj(<< <<"multipart", Prop(res, "multipart")>>,
                   <<"signedUrl", Prop(res, "signedUrl")>>,
                   <<"url", Prop(res, "url")>> >>))

requestUploadReturn(res) ==
    IF res.t \in {"null", "undefined"}
    THEN Throw(Err("TypeError", <<"Cannot read properties of null">>, <<>>))
    ELSE Ok(Obj(<< <<"multipart", Prop(res, "multipart")>>,
                   <<"signedUrl", Prop(res, "signedUrl")>>,
                   <<"accessUrl", Prop(res, "url")>> >>))

requestUploadPartsRequest(params) ==
    Ok([path |-> "/request-upload-parts",
        accessKey |-> Get(params, "accessKey"),
        secretKey |-> Get(params, "secretKey"),
        body |-> Obj(<< <<"multipart", Get(params, "multipart")>>,
                        <<"key", Get(params, "key")>> >>)])

requestUploadPartsReturn(res) ==
    IF res.t \in {"null", "undefined"}
    THEN Throw(Err("TypeError", <<"Cannot read properties of null">>, <<>>))
    ELSE Ok(Obj(<< <<"multipart", Prop(res, "multipart")>> >>))

deleteFileRequest(params) ==
    Ok([path |-> "/delete-file",
        accessKey |-> Get(params, "accessKey"),
        secretKey |-> Get(params, "secretKey"),
        body |-> Obj(<< <<"url", Get(params, "url")>> >>)])

deleteFileReturn(res) == Ok(res)

\* A faulty listFiles: a missing filter is sent as an empty one.
listFilesRequestDefaultsFilter(params) ==
    Ok([path |-> "/list-files",
        accessKey |-> Get(params, "accessKey"),
        secretKey |-> Get(params, "secretKey"),
        body |-> Obj(<< <<"bucketName", Get(params, "bucketName")>>,
                        <<"filter", IF Get(params, "filter") = Undef THEN Obj(<<>>)
                                    ELSE Get(params, "filter")>>,
                        <<"pagination", Get(params, "pagination")>> >>)])

listFilesRequest(params) ==
    Ok([path |-> "/list-files",
        accessKey |-> Get(params, "accessKey"),
        secretKey |-> Get(params, "secretKey"),
        body |-> Obj(<< <<"bucketName", Get(params, "bucketName")>>,
                        <<"filter", Get(params, "filter")>>,
                        <<"pagination", Get(params, "pagination")>> >>)])

listFilesReturn(res) == Ok(res)

\* edgeStoreRawSdk[op](params) up to its makeRequest call.
RawRequest(op, params) ==
    CASE op = "getToken" -> getTokenRequest(params)
      [] op = "getFile" -> getFileRequest(params)
      [] op = "requestUpload" -> requestUploadRequest(params)
      [] op = "requestUploadParts" -> requestUploadPartsRequest(params)
      [] op = "deleteFile" -> deleteFileRequest(params)
      [] op = "listFiles" -> listFilesRequest(params)

\* edgeStoreRawSdk[op](params) from makeRequest's result on.
RawReturn(op, res) ==
    CASE op = "getToken" -> getTokenReturn(res)
      [] op = "getFile" -> getFileReturn(res)
      [] op = "requestUpload" -> requestUploadReturn(res)
      [] op = "requestUploadParts" -> requestUploadPartsReturn(res)
      [] op = "deleteFile" -> deleteFileReturn(res)
      [] op = "listFiles" -> listFilesReturn(res)

(***************************************************************************)
(* initEdgeStoreSdk.                                                       *)
(***************************************************************************)
EmptyArgs == [k \in {} |-> Undef]

\* A faulty default: `value || fallback`, which replaces every falsy value.
DefaultOnFalsy(v, d) == IF Falsy(v) THEN d ELSE v

\* A destructuring default: it applies to undefined only.
Default(v, d) == IF v.t = "undefined" THEN d ELSE v

\* const { accessKey = env..., secretKey = env... } = params ?? {}
ResolveKeys(params, e) ==
    LET p == IF params \in {Undef, Null} THEN EmptyArgs ELSE params IN
    [accessKey |-> Default(Get(p, "accessKey"), e.EDGE_STORE_ACCESS_KEY),
     secretKey |-> Default(Get(p, "secretKey"), e.EDGE_STORE_SECRET_KEY)]

\* initEdgeStoreSdk(params) under environment e: the closure it returns
\* (the keys it captured), or the error it throws.
initEdgeStoreSdk(params, e) ==
    LET k == ResolveKeys(params, e) IN
    IF Falsy(k.accessKey) \/ Falsy(k.secretKey)
    THEN Throw(Err("EdgeStoreCredentialsError", <<>>, <<>>))
    ELSE Ok(k)

\* The parameters a handle's method passes to the raw SDK.
HandleParams(h, op, args) ==
    LET bound == [accessKey |-> h.accessKey, secretKey |-> h.secretKey] IN
    CASE op = "getToken" ->
           [accessKey |-> h.accessKey, secretKey |-> h.secretKey,
            ctx |-> Get(args, "ctx"), router |-> Get(args, "router")]
      [] op = "getFile" ->
           [accessKey |-> h.accessKey, secretKey |-> h.secretKey,
            url |-> Get(args, "url")]
      [] op = "requestUpload" ->
           [accessKey |-> h.accessKey, secretKey |-> h.secretKey,
            bucketName |-> Get(args, "bucketName"),
            bucketType |-> Get(args, "bucketType"),
            fileInfo |-> Get(args, "fileInfo"),
            multipart |-> Get(args, "multipart")]
      [] op = "requestUploadParts" ->
           [accessKey |-> h.accessKey, secretKey |-> h.secretKey,
            key |-> Get(args, "key"), multipart |-> Get(args, "multipart")]
      [] op = "deleteFile" ->
           [accessKey |-> h.accessKey, secretKey |-> h.secretKey,
            url |-> Get(args, "url")]
      [] op = "listFiles" -> Spread(bound, args)

(***************************************************************************)
(* The inputs the model draws from.                                        *)
(***************************************************************************)
EnvNames == {"EDGE_STORE_ACCESS_KEY", "EDGE_STORE_SECRET_KEY"}

\* A variable of process.env is unset, or a string (possibly empty).
EnvValues(name) ==
    IF name = "EDGE_STORE_ACCESS_KEY"
    THEN {Undef, Str(""), Str("ak")}
    ELSE {Undef, Str(""), Str("s")}

ExplicitAccessKeys == {Undef, Null, Str(""), Str("key")}
ExplicitSecretKeys == {Undef, Null, Str(""), Str("cle2")}

\* Every shape of initEdgeStoreSdk's argument: missing, or an object with
\* any of the two properties.
InitParams ==
    {Undef, Null, EmptyArgs}
    \cup {[accessKey |-> a] : a \in ExplicitAccessKeys}
    \cup {[secretKey |-> k] : k \in ExplicitSecretKeys}
    \cup {[accessKey |-> a, secretKey |-> k] :
            a \in ExplicitAccessKeys, k \in ExplicitSecretKeys}

\* The arguments the call specifications create handles with.
FewInitParams == {Undef, [accessKey |-> Str("key"), secretKey |-> Str("cle2")]}

\* The credentials given to direct calls of the raw SDK.
RawCredentials ==
    {[accessKey |-> Str("ak"), secretKey |-> Str("s")],
     [accessKey |-> Str("key"), secretKey |-> Str("s")],
     [accessKey |-> Str("key"), secretKey |-> Str("cle2")]}

FnEntry(key, ret) == Obj(<< <<key, FnRet(Str(ret))>> >>)
EmptyEntry == Obj(<<>>)
AccessControl == Obj(<< <<"userId", Obj(<< <<"eq", Str("u1")>> >>)>> >>)
Bucket(path, accessControl) == [path |-> path, accessControl |-> accessControl]

\* Routers whose path entries are all non-empty and whose functions return.
GoodRouters ==
    { [buckets |-> <<>>],
      [buckets |-> << <<"imgs", Bucket(<<FnEntry("type", "post")>>, AccessControl)>> >>],
      [buckets |-> << <<"imgs", Bucket(<<FnEntry("type", "post"),
                                        Obj(<< <<"author", FnRet(Str("u1"))>>,
                                               <<"extra", FnRet(Str("zz"))>> >>)>>,
                                      AccessControl)>>,
                      <<"docs", Bucket(<<>>, Undef)>> >>] }

\* Routers with an empty path entry: first, between valid ones, in a later
\* bucket, after a function that throws.
EmptyEntryRouters ==
    { [buckets |-> << <<"imgs", Bucket(<<EmptyEntry>>, AccessControl)>> >>],
      [buckets |-> << <<"imgs", Bucket(<<FnEntry("type", "post"), EmptyEntry,
                                        FnEntry("author", "u1")>>, Undef)>> >>],
      [buckets |-> << <<"imgs", Bucket(<<FnEntry("type", "post")>>, AccessControl)>>,
                      <<"docs", Bucket(<<FnEntry("type", "doc"), EmptyEntry>>, Undef)>> >>],
      [buckets |-> << <<"imgs", Bucket(<<Obj(<< <<"type", FnThrow("boom")>> >>),
                                        EmptyEntry>>, Undef)>> >>] }

\* A router whose path function throws.
ThrowingRouters ==
    { [buckets |-> << <<"imgs", Bucket(<<FnEntry("type", "post"),
                                        Obj(<< <<"author", FnThrow("boom")>> >>)>>,
                                      AccessControl)>> >>] }

Routers == GoodRouters \cup EmptyEntryRouters \cup ThrowingRouters

Ctx == Obj(<< <<"userId", Str("u1")>> >>)

FileInfos ==
    { Obj(<< <<"size", Num(10)>>, <<"extension", Str("png")>>,
             <<"isPublic", Bool(TRUE)>>,
             <<"path", Arr(<<Obj(<< <<"key", Str("type")>>, <<"value", Str("post")>> >>)>>)>> >>),
      Obj(<< <<"size", Num(10)>>, <<"extension", Str("png")>>,
             <<"isPublic", Bool(FALSE)>>, <<"path", Arr(<<>>)>>,
             <<"metadata", Obj(<< <<"k", Str("v")>> >>)>>,
             <<"replaceTargetUrl", Str("old")>> >>) }

Filters ==
    { Obj(<<>>),
      Obj(<< <<"path", Obj(<< <<"type", Str("post")>> >>)>> >>),
      Obj(<< <<"AND", Arr(<<Obj(<< <<"uploadedAt",
                                     Obj(<< <<"gt", DateOf("2024-01-01T00:00:00.000Z")>> >>)>> >>),
                            Obj(<< <<"metadata", Obj(<< <<"k", Undef>> >>)>> >>)>>)>> >>) }

Paginations == { Obj(<< <<"currentPage", Num(1)>>, <<"pageSize", Num(10)>> >>) }

\* listFiles arguments: bucketName with any of filter and pagination.
ListFilesArgs ==
    {[bucketName |-> Str("imgs")]}
    \cup {[bucketName |-> Str("imgs"), filter |-> f] : f \in Filters \cup {Undef}}
    \cup {[bucketName |-> Str("imgs"), pagination |-> g] : g \in Paginations}
    \cup {[bucketName |-> Str("imgs"), filter |-> f, pagination |-> g] :
            f \in Filters, g \in Paginations}

\* listFiles arguments that carry properties beyond the declared ones (an
\* object typed { bucketName, filter?, pagination? } may hold more).
ListFilesWiderArgs ==
    { [bucketName |-> Str("imgs"), accessKey |-> Str("ak")],
      [bucketName |-> Str("imgs"), accessKey |-> Undef, secretKey |-> Str("s")],
      [bucketName |-> Str("imgs"), other |-> Str("x")] }

\* The arguments of each operation, credentials apart.
ArgsOf(op) ==
    CASE op = "getToken" -> {[ctx |-> Ctx, router |-> r] : r \in Routers}
      [] op = "getFile" -> {[url |-> Str("u")]}
      [] op = "requestUpload" ->
           {[bucketName |-> Str("imgs"), bucketType |-> Str("IMAGE"), fileInfo |-> f] :
               f \in FileInfos}
           \cup {[bucketName |-> Str("imgs"), bucketType |-> Str("IMAGE"), fileInfo |-> f,
                  multipart |-> Obj(<< <<"parts", Arr(<<Num(1), Num(2)>>)>> >>)] :
               f \in FileInfos}
      [] op = "requestUploadParts" ->
           {[key |-> Str("k1"), multipart |-> m] :
               m \in {Obj(<< <<"uploadId", Str("up1")>>, <<"parts", Arr(<<Num(3)>>)>> >>),
                      Obj(<< <<"parts", Arr(<<Num(1)>>)>> >>)}}
      [] op = "deleteFile" -> {[url |-> Str("u")]}
      [] op = "listFiles" -> ListFilesArgs

\* The arguments a method of a handle may be called with.
HandleArgsOf(op) ==
    IF op = "listFiles" THEN ListFilesArgs \cup ListFilesWiderArgs ELSE ArgsOf(op)

\* The few calls the concurrent specification interleaves.
FewOps == {"getToken", "requestUpload"}
FewArgsOf(op) ==
    CASE op = "getToken" ->
           {[ctx |-> Ctx, router |-> r] :
               r \in {[buckets |-> << <<"imgs", Bucket(<<EmptyEntry>>, AccessControl)>> >>]}}
      [] op = "requestUpload" ->
           {[bucketName |-> Str("imgs"), bucketType |-> Str("IMAGE"), fileInfo |-> f] :
               f \in {Obj(<< <<"size", Num(10)>>, <<"extension", Str("png")>>,
                             <<"isPublic", Bool(FALSE)>>, <<"path", Arr(<<>>)>> >>)}}

\* Response statuses fetch can resolve with, around the 2xx range.
Statuses == {200, 299, 300, 500}
FewStatuses == {200, 500}

\* Response bodies: every JSON text of JsonValues, and a text that is no JSON.
NotJson == <<[raw |-> "Bad Gateway"]>>
Texts == {Stringify(v) : v \in JsonValues} \cup {NotJson}
FewTexts == {Stringify(Obj(<< <<"signedUrl", Str("s")>>, <<"url", Str("u")>> >>)), NotJson}

(***************************************************************************)
(* The state machine.                                                      *)
(***************************************************************************)
NoInit == [t |-> "none"]
Pending == [pending |-> TRUE]

InitEnv(e) ==
    /\ env = e
    /\ handles = <<>>
    /\ lastInit = NoInit
    /\ calls = <<>>

\* The process starts with its environment set.
Init ==
    InitEnv([EDGE_STORE_ACCESS_KEY |-> Str("ak"), EDGE_STORE_SECRET_KEY |-> Str("s")])

\* The process starts under any environment.
InitAnyEnv ==
    \E a \in EnvValues("EDGE_STORE_ACCESS_KEY"), k \in EnvValues("EDGE_STORE_SECRET_KEY") :
        InitEnv([EDGE_STORE_ACCESS_KEY |-> a, EDGE_STORE_SECRET_KEY |-> k])

\* The program (or its host) assigns process.env[name].
SetEnv(name, v) ==
    /\ env[name] # v
    /\ env' = [env EXCEPT ![name] = v]
    /\ UNCHANGED <<handles, lastInit, calls>>

\* One call of initEdgeStoreSdk(params).
Create(params) ==
    LET r == initEdgeStoreSdk(params, env) IN
    /\ Len(handles) < MaxHandles
    /\ lastInit' = [params |-> params, env |-> env, outcome |-> r]
    /\ handles' = IF r.ok THEN Append(handles, r.value) ELSE handles
    /\ UNCHANGED <<env, calls>>

\* The call record of an operation called with `raw` on the raw SDK: the
\* synchronous part of the call, up to the await of fetch.
Begin(via, op, args, raw) ==
    LET req == RawRequest(op, raw) IN
    [via |-> via, op |-> op, args |-> args, raw |-> raw,
     pc |-> IF req.ok THEN "fetch" ELSE "done",
     sent |-> IF req.ok THEN <<makeRequestFetch(req.value)>> ELSE <<>>,
     res |-> [got |-> "none"],
     outcome |-> IF req.ok THEN Pending ELSE req]

\* edgeStoreRawSdk[op]({ ...credentials, ...args }) is called.
CallRaw(op, credentials, args) ==
    /\ Len(calls) < MaxCalls
    /\ calls' = Append(calls, Begin(0, op, args, Spread(args, credentials)))
    /\ UNCHANGED <<env, handles, lastInit>>

\* A faulty factory: the keys live in one place all handles share, so a call
\* goes out with the keys of the handle created last.
CallHandleSharedKeys(h, op, args) ==
    /\ Len(calls) < MaxCalls
    /\ h \in DOMAIN handles
    /\ calls' = Append(calls,
                       Begin(h, op, args, HandleParams(handles[Len(handles)], op, args)))
    /\ UNCHANGED <<env, handles, lastInit>>

\* handles[h][op](args) is called.
CallHandle(h, op, args) ==
    /\ Len(calls) < MaxCalls
    /\ h \in DOMAIN handles
    /\ calls' = Append(calls, Begin(h, op, args, HandleParams(handles[h], op, args)))
    /\ UNCHANGED <<env, handles, lastInit>>

\* The path call c posted to.
PathOf(c) == RawRequest(c.op, c.raw).value.path

\* The call's continuation once its response is in: makeRequest's check and
\* parse, then the operation's return.
Settle(c, res) ==
    LET r == makeRequestReturn(PathOf(c), res) IN
    IF ~r.ok THEN r ELSE RawReturn(c.op, r.value)

\* fetch resolves: the response's status line and headers are in.
FetchResolve(i, status) ==
    /\ i \in DOMAIN calls
    /\ calls[i].pc = "fetch"
    /\ calls' = [calls EXCEPT ![i].pc = "body",
                              ![i].res = [got |-> "head", status |-> status]]
    /\ UNCHANGED <<env, handles, lastInit>>

\* A faulty makeRequest: a network failure is retried once.
FetchRejectRetries(i) ==
    /\ i \in DOMAIN calls
    /\ calls[i].pc = "fetch"
    /\ calls' = IF Len(calls[i].sent) < 2
                THEN [calls EXCEPT ![i].sent = Append(@, @[1])]
                ELSE [calls EXCEPT ![i].pc = "done",
                                   ![i].res = [got |-> "failed"],
                                   ![i].outcome =
                                       Throw(Err("TypeError", <<"fetch failed">>, <<>>))]
    /\ UNCHANGED <<env, handles, lastInit>>

\* fetch rejects: a network failure.
FetchReject(i) ==
    /\ i \in DOMAIN calls
    /\ calls[i].pc = "fetch"
    /\ calls' = [calls EXCEPT ![i].pc = "done",
                              ![i].res = [got |-> "failed"],
                              ![i].outcome = Throw(Err("TypeError", <<"fetch failed">>, <<>>))]
    /\ UNCHANGED <<env, handles, lastInit>>

\* res.text() or res.json() resolves: the body is in.
BodyArrive(i, text) ==
    /\ i \in DOMAIN calls
    /\ calls[i].pc = "body"
    /\ LET res == [got |-> "full", status |-> calls[i].res.status, text |-> text] IN
       calls' = [calls EXCEPT ![i].pc = "done",
                              ![i].res = res,
                              ![i].outcome = Settle(calls[i], res)]
    /\ UNCHANGED <<env, handles, lastInit>>

\* res.text() or res.json() rejects: the connection broke under the body.
BodyReject(i) ==
    /\ i \in DOMAIN calls
    /\ calls[i].pc = "body"
    /\ calls' = [calls EXCEPT ![i].pc = "done",
                              ![i].res = [got |-> "cut", status |-> calls[i].res.status],
                              ![i].outcome = Throw(Err("TypeError", <<"terminated">>, <<>>))]
    /\ UNCHANGED <<env, handles, lastInit>>

\* The factory alone, under every environment and every argument.
NextFactory ==
    \/ \E name \in EnvNames : \E v \in EnvValues(name) : SetEnv(name, v)
    \/ \E params \in InitParams : Create(params)

SpecFactory == InitAnyEnv /\ [][NextFactory]_vars

\* One call at a time, with every argument and every response.
Next ==
    \/ \E v \in {Undef, Str("ak")} : SetEnv("EDGE_STORE_ACCESS_KEY", v)
    \/ \E params \in FewInitParams : Create(params)
    \/ \E op \in Ops : \E credentials \in RawCredentials : \E args \in ArgsOf(op) :
          calls = <<>> /\ CallRaw(op, credentials, args)
    \/ \E op \in Ops : \E h \in DOMAIN handles : \E args \in HandleArgsOf(op) :
          calls = <<>> /\ CallHandle(h, op, args)
    \/ \E i \in DOMAIN calls : \E status \in Statuses : FetchResolve(i, status)
    \/ \E i \in DOMAIN calls : FetchReject(i)
    \/ \E i \in DOMAIN calls : \E text \in Texts : BodyArrive(i, text)
    \/ \E i \in DOMAIN calls : BodyReject(i)

Spec == Init /\ [][Next]_vars

\* Up to MaxCalls calls in flight together, on one handle or on several.
NextConcurrent ==
    \/ \E params \in FewInitParams : Create(params)
    \/ \E op \in FewOps : \E h \in DOMAIN handles : \E args \in FewArgsOf(op) :
          CallHandle(h, op, args)
    \/ \E i \in DOMAIN calls : \E status \in FewStatuses : FetchResolve(i, status)
    \/ \E i \in DOMAIN calls : FetchReject(i)
    \/ \E i \in DOMAIN calls : \E text \in FewTexts : BodyArrive(i, text)
    \/ \E i \in DOMAIN calls : BodyReject(i)

SpecConcurrent == Init /\ [][NextConcurrent]_vars

(***************************************************************************)
(* Vocabulary of the properties, written apart from the operators above.   *)
(***************************************************************************)
Done(c) == c.pc = "done"
GotBody(c) == c.res.got = "full"

\* A key that is present and not empty.
UsableKey(v) == v.t = "string" /\ v.s # ""
ValidCredentials(r) == UsableKey(Get(r, "accessKey")) /\ UsableKey(Get(r, "secretKey"))

\* The route of each operation.
RouteOf(op) ==
    CASE op = "getToken" -> "/get-token"
      [] op = "getFile" -> "/get-file"
      [] op = "requestUpload" -> "/request-upload"
      [] op = "requestUploadParts" -> "/request-upload-parts"
      [] op = "deleteFile" -> "/delete-file"
      [] op = "listFiles" -> "/list-files"

\* The UTF-8 bytes of the key strings, listed by hand.
KeyBytes(s) ==
    CASE s = "ak" -> <<97, 107>>
      [] s = "key" -> <<107, 101, 121>>
      [] s = "s" -> <<115>>
      [] s = "cle2" -> <<99, 108, 195, 169, 50>>

B64Index(ch) == CHOOSE i \in 0..63 : Base64Chars[i + 1] = ch

\* The bytes a padded base64 text stands for.
RECURSIVE Base64Decode(_)
Base64Decode(cs) ==
    IF cs = <<>> THEN <<>>
    ELSE LET a == B64Index(cs[1])
             b == B64Index(cs[2])
         IN IF cs[3] = "=" THEN <<a * 4 + (b \div 16)>>
            ELSE LET c == B64Index(cs[3]) IN
                 IF cs[4] = "="
                 THEN <<a * 4 + (b \div 16), (b % 16) * 16 + (c \div 4)>>
                 ELSE <<a * 4 + (b \div 16), (b % 16) * 16 + (c \div 4),
                        (c % 4) * 64 + B64Index(cs[4])>>
                      \o Base64Decode(SubSeq(cs, 5, Len(cs)))

\* header is "Basic " followed by the base64 of accessKey ":" secretKey.
IsBasicAuthOf(header, accessKey, secretKey) ==
    /\ Len(header) >= 1
    /\ header[1] = "Basic "
    /\ Len(header) % 4 = 1
    /\ Base64Decode(Tail(header)) = KeyBytes(accessKey.s) \o <<58>> \o KeyBytes(secretKey.s)

\* The router cannot be shaped into a request: some path entry is empty, or
\* the function of some entry's first key throws.
HasEmptyEntry(router) ==
    \E b \in DOMAIN router.buckets : \E j \in DOMAIN router.buckets[b][2].path :
        router.buckets[b][2].path[j].props = <<>>

HasThrowingEntry(router) ==
    \E b \in DOMAIN router.buckets : \E j \in DOMAIN router.buckets[b][2].path :
        LET props == router.buckets[b][2].path[j].props IN
        props # <<>> /\ props[1][2].throws

FailsBeforeRequest(c) ==
    c.op = "getToken" /\ (HasEmptyEntry(c.args.router) \/ HasThrowingEntry(c.args.router))

\* The error makeRequest throws for a non-2xx response.
IsRequestError(outcome, path, text) ==
    /\ ~outcome.ok
    /\ outcome.error.name = "Error"
    /\ outcome.error.message = <<"Failed to make request to ", path, ": ">>
    /\ outcome.error.text = text

IsAnyRequestError(outcome) ==
    /\ ~outcome.ok
    /\ outcome.error.name = "Error"
    /\ Head(outcome.error.message) = "Failed to make request to "

Is2xx(status) == status \in 200..299

(***************************************************************************)
(* C1.  initEdgeStoreSdk resolves each key as the explicit argument when   *)
(* one is supplied and otherwise as the environment value; it throws the   *)
(* credentials error, and returns no handle, exactly when a resolved key   *)
(* is absent or empty, and otherwise returns a handle holding the resolved *)
(* keys.                                                                   *)
(***************************************************************************)
Supplied(params, k) ==
    params \notin {Undef, Null} /\ k \in DOMAIN params /\ params[k] # Undef

ResolvedKey(params, e, k, name) == IF Supplied(params, k) THEN params[k] ELSE e[name]

AbsentOrEmpty(v) == v \in {Undef, Null, Str("")}

C1_CredentialsResolved ==
    /\ lastInit # NoInit =>
         LET a == ResolvedKey(lastInit.params, lastInit.env, "accessKey",
                              "EDGE_STORE_ACCESS_KEY")
             k == ResolvedKey(lastInit.params, lastInit.env, "secretKey",
                              "EDGE_STORE_SECRET_KEY")
         IN IF AbsentOrEmpty(a) \/ AbsentOrEmpty(k)
            THEN /\ ~lastInit.outcome.ok
                 /\ lastInit.outcome.error.name = "EdgeStoreCredentialsError"
                 /\ "value" \notin DOMAIN lastInit.outcome
            ELSE /\ lastInit.outcome.ok
                 /\ lastInit.outcome.value = [accessKey |-> a, secretKey |-> k]
                 /\ handles # <<>>
                 /\ handles[Len(handles)] = [accessKey |-> a, secretKey |-> k]
    /\ \A h \in DOMAIN handles :
         UsableKey(handles[h].accessKey) /\ UsableKey(handles[h].secretKey)

\* An explicit access key with an empty secret key in the environment: the
\* factory has thrown.
C1_Witness ==
    /\ lastInit # NoInit
    /\ lastInit.params = [accessKey |-> Str("key")]
    /\ lastInit.env["EDGE_STORE_SECRET_KEY"] = Str("")
    /\ ~lastInit.outcome.ok

(***************************************************************************)
(* C2.  As claimed: with valid credentials, one call of any of the six     *)
(* operations sends exactly one POST, to the operation's path, with the    *)
(* Authorization header "Basic " + base64(accessKey:secretKey) of the      *)
(* credentials given to the call.                                          *)
(***************************************************************************)
IsPostTo(request, path) ==
    /\ request.method = "POST"
    /\ request.url = <<API_ENDPOINT, path>>

RequestsWellFormed(c) ==
    \A n \in DOMAIN c.sent :
        /\ IsPostTo(c.sent[n], RouteOf(c.op))
        /\ IsBasicAuthOf(c.sent[n].headers.Authorization, c.raw.accessKey, c.raw.secretKey)

C2_ExactlyOnePost ==
    \A i \in DOMAIN calls :
        ValidCredentials(calls[i].raw) =>
            Len(calls[i].sent) = 1 /\ RequestsWellFormed(calls[i])

(***************************************************************************)
(* C2, amended.  With valid credentials, one call sends at most one POST,  *)
(* and exactly one unless it fails while building its request (getToken    *)
(* over a router with an empty path entry or a throwing path function);    *)
(* every POST sent goes to the operation's path with the Authorization     *)
(* header of the call's credentials.                                       *)
(***************************************************************************)
C2_OnePostUnlessBuildFails ==
    \A i \in DOMAIN calls :
        ValidCredentials(calls[i].raw) =>
            /\ Len(calls[i].sent) <= 1
            /\ (Len(calls[i].sent) = 0 <=> FailsBeforeRequest(calls[i]))
            /\ RequestsWellFormed(calls[i])

\* A deleteFile call with a non-ASCII secret key has sent its request and
\* returned.
C2_Witness ==
    \E i \in DOMAIN calls :
        /\ calls[i].op = "deleteFile"
        /\ calls[i].raw.secretKey = Str("cle2")
        /\ Len(calls[i].sent) = 1
        /\ Done(calls[i]) /\ calls[i].outcome.ok

(***************************************************************************)
(* C3.  As claimed: a non-2xx response makes the operation fail with the   *)
(* request error carrying the path and the body text; a 2xx response does  *)
(* not, and the operation returns the parsed JSON body (read here for the  *)
(* bodies that are JSON objects).                                          *)
(***************************************************************************)
IsJson(text) == \E v \in JsonValues : Stringify(v) = text
Parsed(text) == CHOOSE v \in JsonValues : Stringify(v) = text

C3_ErrorOrParsedBody ==
    \A i \in DOMAIN calls :
        LET c == calls[i] IN
        Done(c) /\ GotBody(c) =>
            IF ~Is2xx(c.res.status)
            THEN IsRequestError(c.outcome, RouteOf(c.op), c.res.text)
            ELSE /\ ~IsAnyRequestError(c.outcome)
                 /\ IsJson(c.res.text) /\ Parsed(c.res.text).t = "object"
                    => c.outcome = Ok(Parsed(c.res.text))

(***************************************************************************)
(* C3, amended.  A non-2xx response makes the operation fail with the      *)
(* request error carrying the path and the body text, and no result; a     *)
(* 2xx response never does, and when its body is JSON getFile, deleteFile  *)
(* and listFiles return the parsed body, while for a JSON object getToken  *)
(* returns its token, requestUpload {multipart, signedUrl, accessUrl: url} *)
(* and requestUploadParts {multipart}.                                     *)
(***************************************************************************)
PassThroughOps == {"getFile", "deleteFile", "listFiles"}

DerivedResult(op, body) ==
    CASE op \in PassThroughOps -> body
      [] op = "getToken" -> Prop(body, "token")
      [] op = "requestUpload" ->
           Obj(<< <<"multipart", Prop(body, "multipart")>>,
                  <<"signedUrl", Prop(body, "signedUrl")>>,
                  <<"accessUrl", Prop(body, "url")>> >>)
      [] op = "requestUploadParts" -> Obj(<< <<"multipart", Prop(body, "multipart")>> >>)

C3_ErrorOrDerivedResult ==
    \A i \in DOMAIN calls :
        LET c == calls[i] IN
        Done(c) /\ GotBody(c) =>
            IF ~Is2xx(c.res.status)
            THEN /\ IsRequestError(c.outcome, RouteOf(c.op), c.res.text)
                 /\ "value" \notin DOMAIN c.outcome
            ELSE /\ ~IsAnyRequestError(c.outcome)
                 /\ IsJson(c.res.text)
                      /\ (c.op \in PassThroughOps \/ Parsed(c.res.text).t = "object")
                    => c.outcome = Ok(DerivedResult(c.op, Parsed(c.res.text)))

\* requestUploadParts got status 300 with a body that is no JSON, and failed
\* with the request error.
C3_Witness ==
    \E i \in DOMAIN calls :
        /\ calls[i].op = "requestUploadParts"
        /\ Done(calls[i]) /\ GotBody(calls[i])
        /\ calls[i].res.status = 300
        /\ calls[i].res.text = NotJson
        /\ IsRequestError(calls[i].outcome, "/request-upload-parts", NotJson)

(***************************************************************************)
(* C4.  getToken over a router with an empty path entry, wherever the      *)
(* entry stands, fails before any request: the call is over, with an       *)
(* error, and has never sent anything.                                     *)
(***************************************************************************)
C4_EmptyEntryFailsBeforeRequest ==
    \A i \in DOMAIN calls :
        calls[i].op = "getToken" /\ HasEmptyEntry(calls[i].args.router) =>
            /\ calls[i].sent = <<>>
            /\ Done(calls[i])
            /\ ~calls[i].outcome.ok

\* The empty entry is the last one of the second bucket, after valid ones.
C4_Witness ==
    \E i \in DOMAIN calls :
        /\ calls[i].op = "getToken"
        /\ Len(calls[i].args.router.buckets) = 2
        /\ HasEmptyEntry(calls[i].args.router)
        /\ calls[i].sent = <<>>
        /\ ~calls[i].outcome.ok
        /\ calls[i].outcome.error.message = <<"Missing path param">>

(***************************************************************************)
(* C5.  listFiles, on the raw SDK and on a handle, posts to /list-files a  *)
(* body made of bucketName and the caller's filter and pagination, each    *)
(* serialised as it would be alone: nothing added, dropped or rewritten,   *)
(* and no credential in the body.                                          *)
(***************************************************************************)
Given(args, k) == k \in DOMAIN args /\ args[k] # Undef

Member(args, k, first) ==
    IF Given(args, k)
    THEN (IF first THEN <<>> ELSE <<P(",")>>) \o <<Q(k), P(":")>> \o Stringify(args[k])
    ELSE <<>>

ExpectedListFilesBody(args) ==
    <<P("{")>> \o Member(args, "bucketName", TRUE) \o Member(args, "filter", FALSE)
    \o Member(args, "pagination", FALSE) \o <<P("}")>>

CredentialTokens(c) ==
    {Q(ToStr(c.raw.accessKey)), Q(ToStr(c.raw.secretKey))}
    \cup (IF c.via = 0 THEN {}
          ELSE {Q(handles[c.via].accessKey.s), Q(handles[c.via].secretKey.s)})

C5_ListFilesForwards ==
    \A i \in DOMAIN calls :
        LET c == calls[i] IN
        c.op = "listFiles" =>
            /\ Len(c.sent) = 1
            /\ IsPostTo(c.sent[1], "/list-files")
            /\ c.sent[1].body = ExpectedListFilesBody(c.args)
            /\ \A n \in DOMAIN c.sent[1].body : c.sent[1].body[n] \notin CredentialTokens(c)

\* A handle's listFiles has sent a nested filter with a date and pagination.
C5_Witness ==
    \E i \in DOMAIN calls :
        /\ calls[i].op = "listFiles"
        /\ calls[i].via > 0
        /\ Given(calls[i].args, "pagination")
        /\ Given(calls[i].args, "filter")
        /\ HasProp(calls[i].args.filter, "AND")
        /\ Len(calls[i].sent) = 1
        /\ Q("2024-01-01T00:00:00.000Z") \in
              {calls[i].sent[1].body[n] : n \in DOMAIN calls[i].sent[1].body}

(***************************************************************************)
(* C6.  For a successful /request-upload response whose body is a JSON     *)
(* object, requestUpload returns exactly {multipart, signedUrl, accessUrl} *)
(* with accessUrl the response's url, an absent field undefined, and no    *)
(* other field of the response: {signedUrl: "s", url: "u"} gives           *)
(* {multipart: undefined, signedUrl: "s", accessUrl: "u"}.                 *)
(***************************************************************************)
UploadExampleBody == Obj(<< <<"signedUrl", Str("s")>>, <<"url", Str("u")>> >>)
UploadExampleResult ==
    Obj(<< <<"multipart", Undef>>, <<"signedUrl", Str("s")>>, <<"accessUrl", Str("u")>> >>)

C6_RequestUploadResult ==
    \A i \in DOMAIN calls :
        LET c == calls[i] IN
        /\ c.op = "requestUpload"
        /\ Done(c) /\ GotBody(c) /\ Is2xx(c.res.status)
        /\ IsJson(c.res.text) /\ Parsed(c.res.text).t = "object"
        => LET body == Parsed(c.res.text) IN
           /\ c.outcome.ok
           /\ c.outcome.value.t = "object"
           /\ [n \in DOMAIN c.outcome.value.props |-> c.outcome.value.props[n][1]]
                 = <<"multipart", "signedUrl", "accessUrl">>
           /\ Prop(c.outcome.value, "multipart") = Prop(body, "multipart")
           /\ Prop(c.outcome.value, "signedUrl") = Prop(body, "signedUrl")
           /\ Prop(c.outcome.value, "accessUrl") = Prop(body, "url")
           /\ body = UploadExampleBody => c.outcome.value = UploadExampleResult

\* requestUpload on a handle received {signedUrl: "s", url: "u"} with
\* status 299 and returned.
C6_Witness ==
    \E i \in DOMAIN calls :
        /\ calls[i].op = "requestUpload"
        /\ calls[i].via > 0
        /\ Done(calls[i]) /\ GotBody(calls[i])
        /\ calls[i].res.status = 299
        /\ calls[i].res.text = Stringify(UploadExampleBody)
        /\ calls[i].outcome = Ok(UploadExampleResult)

(***************************************************************************)
(* C7.  As claimed: a handle only binds the keys resolved at creation. A   *)
(* call on the handle sends the request, and ends with the result or       *)
(* error, of the raw operation called with the same arguments plus the     *)
(* handle's keys.                                                          *)
(***************************************************************************)
C7_HandleOnlyBindsKeys ==
    \A i \in DOMAIN calls :
        LET c == calls[i] IN
        c.via > 0 =>
            LET direct == Begin(c.via, c.op, c.args, Spread(c.args, handles[c.via])) IN
            /\ c.sent = direct.sent
            /\ Done(c) /\ c.sent = <<>> => c.outcome = direct.outcome
            /\ Done(c) /\ GotBody(c) => c.outcome = Settle(direct, c.res)

(***************************************************************************)
(* C8.  Calls in flight together, on one handle or on handles created      *)
(* with different keys, do not touch each other: each call's request       *)
(* carries its own keys and body, its outcome comes from its own response, *)
(* and a step of one call leaves every other call, and every handle, as    *)
(* it was.                                                                 *)
(***************************************************************************)
OwnKeys(c) == handles[c.via]

OwnRequest(c) == RawRequest(c.op, Spread(c.args, OwnKeys(c)))

OwnOutcome(c) ==
    IF ~Is2xx(c.res.status)
    THEN Throw(Err("Error", <<"Failed to make request to ", RouteOf(c.op), ": ">>, c.res.text))
    ELSE IF IsJson(c.res.text)
         THEN Ok(DerivedResult(c.op, Parsed(c.res.text)))
         ELSE Throw(Err("SyntaxError", <<"Unexpected token">>, <<>>))

CallIsItsOwn(c) ==
    /\ c.raw.accessKey = OwnKeys(c).accessKey
    /\ c.raw.secretKey = OwnKeys(c).secretKey
    /\ RequestsWellFormed(c)
    /\ IF OwnRequest(c).ok
       THEN /\ Len(c.sent) = 1
            /\ c.sent[1].body = Stringify(OwnRequest(c).value.body)
       ELSE c.sent = <<>> /\ Done(c) /\ c.outcome = OwnRequest(c)
    /\ Done(c) /\ GotBody(c) => c.outcome = OwnOutcome(c)
    /\ ~Done(c) => c.outcome = Pending

OthersUntouched ==
    /\ \A h \in DOMAIN handles : h \in DOMAIN handles' /\ handles'[h] = handles[h]
    /\ \A i \in DOMAIN calls :
         /\ i \in DOMAIN calls'
         /\ calls'[i].via = calls[i].via
         /\ calls'[i].raw = calls[i].raw
         /\ calls'[i].sent = calls[i].sent
         /\ calls'[i] # calls[i] =>
              \A j \in DOMAIN calls \ {i} : calls'[j] = calls[j]

C8_CallsIndependent ==
    /\ [](\A i \in DOMAIN calls : CallIsItsOwn(calls[i]))
    /\ [][OthersUntouched]_vars

\* Two calls on handles with different keys overlap: the second has
\* returned while the first still waits for its response.
C8_Witness ==
    /\ Len(calls) >= 2
    /\ calls[1].via > 0 /\ calls[2].via > 0
    /\ handles[calls[1].via] # handles[calls[2].via]
    /\ calls[1].pc = "fetch"
    /\ Done(calls[2]) /\ calls[2].outcome.ok
    /\ calls[1].sent[1].headers.Authorization # calls[2].sent[1].headers.Authorization

(***************************************************************************)
(* C9.  For a router whose entries are all non-empty (and whose functions  *)
(* return), getToken posts {ctx, buckets}: one key per bucket, in order,   *)
(* each with path the declared entries in order, element j being {key:     *)
(* the entry's first key, value: what its function returns}, and the       *)
(* bucket's accessControl; on success it returns the response's token.     *)
(***************************************************************************)
ExpectedSegment(entry) ==
    Obj(<< <<"key", Str(entry.props[1][1])>>, <<"value", entry.props[1][2].ret>> >>)

ExpectedBucket(bucket) ==
    Obj(<< <<"path", Arr([j \in 1..Len(bucket.path) |-> ExpectedSegment(bucket.path[j])])>>,
           <<"accessControl", bucket.accessControl>> >>)

ExpectedBuckets(router) ==
    Obj([b \in 1..Len(router.buckets) |->
            <<router.buckets[b][1], ExpectedBucket(router.buckets[b][2])>>])

C9_GetTokenBody ==
    \A i \in DOMAIN calls :
        LET c == calls[i] IN
        /\ c.op = "getToken"
        /\ ~HasEmptyEntry(c.args.router)
        /\ ~HasThrowingEntry(c.args.router)
        => /\ Len(c.sent) = 1
           /\ IsPostTo(c.sent[1], "/get-token")
           /\ c.sent[1].body =
                Stringify(Obj(<< <<"ctx", c.args.ctx>>,
                                 <<"buckets", ExpectedBuckets(c.args.router)>> >>))
           /\ Done(c) /\ GotBody(c) /\ Is2xx(c.res.status)
                /\ IsJson(c.res.text) /\ Parsed(c.res.text).t = "object"
              => c.outcome = Ok(Prop(Parsed(c.res.text), "token"))

\* getToken over two buckets, one entry with two keys, returned the token.
C9_Witness ==
    \E i \in DOMAIN calls :
        /\ calls[i].op = "getToken"
        /\ Len(calls[i].args.router.buckets) = 2
        /\ ~HasEmptyEntry(calls[i].args.router)
        /\ Len(calls[i].sent) = 1
        /\ Q("author") \in {calls[i].sent[1].body[n] : n \in DOMAIN calls[i].sent[1].body}
        /\ Done(calls[i])
        /\ calls[i].outcome = Ok(Str("tok"))

(***************************************************************************)
(* C10.  No retry, no recovery: a call never has more than one request;    *)
(* a failed request (a non-2xx response, a network failure) ends the call  *)
(* with an error and no result; a call that has not ended has no result;   *)
(* a call ends with a result after exactly one request and a 2xx           *)
(* response, or with an error after at most one request.                   *)
(***************************************************************************)
RequestFailed(c) ==
    \/ c.res.got \in {"failed", "cut"}
    \/ GotBody(c) /\ ~Is2xx(c.res.status)

C10_NoRetry ==
    \A i \in DOMAIN calls :
        LET c == calls[i] IN
        /\ Len(c.sent) <= 1
        /\ RequestFailed(c) =>
             Done(c) /\ ~c.outcome.ok /\ "value" \notin DOMAIN c.outcome /\ Len(c.sent) = 1
        /\ ~Done(c) => c.outcome = Pending
        /\ Done(c) => c.outcome # Pending
        /\ Done(c) /\ c.outcome.ok =>
             Len(c.sent) = 1 /\ GotBody(c) /\ Is2xx(c.res.status)

\* fetch rejected: the call is over with an error after its one request.
C10_Witness ==
    \E i \in DOMAIN calls :
        /\ calls[i].res.got = "failed"
        /\ Done(calls[i])
        /\ ~calls[i].outcome.ok
        /\ Len(calls[i].sent) = 1

=============================================================================
